---------------------------- MODULE Spec2Model ----------------------------
(***************************************************************************)
(* Model of Project.py: the legal-document pipeline                        *)
(*   read_pdf -> extract_parties -> extract_dates -> extract_clauses ->    *)
(*   extract_legal_references -> generate_summary -> identify_core ->      *)
(*   report assembly.                                                      *)
(* Document text is a TLA+ string; the regular expressions of the source   *)
(* are modelled character by character on it.  The third-party libraries   *)
(* (pdfplumber, spaCy, sumy) are the environment: their results are drawn  *)
(* nondeterministically from bounded sets.                                 *)
(***************************************************************************)
EXTENDS Integers, Sequences, FiniteSets, TLC

VARIABLES
    pc,                 \* position of the program
    pages,              \* page.extract_text() of each page of the PDF
    text,               \* the document text
    ents,               \* doc.ents of nlp(text)
    document,           \* parser.document: the sentences of the text
    sentence_count,     \* argument of generate_summary
    summary_sentences,  \* what the LSA summarizer returned
    parties, dates, clauses, legal_refs, summary, core,
    output,             \* the report string
    printed,            \* the report was printed
    ran,                \* how often each stage was entered
    raised              \* the stage whose exception ended the run

vars == <<pc, pages, text, ents, document, sentence_count, summary_sentences,
          parties, dates, clauses, legal_refs, summary, core,
          output, printed, ran, raised>>

(***************************************************************************)
(* Bounds of the model.                                                    *)
(***************************************************************************)
MaxChunks == 3      \* chunks a document text is put together from
MaxEnts == 2        \* entities that entity recognition returns
MaxSentences == 6   \* sentences of a document to summarise
MaxCalls == 2       \* calls of identify_core on one text
MaxPages == 2       \* pages of a PDF

(***************************************************************************)
(* Python values.                                                          *)
(***************************************************************************)
\* None is the empty tuple, a str s is the one-element tuple <<s>>.
None == <<>>

Str(s) == <<s>>

\* Python truth value of an optional str: None and "" are falsy.
Truthy(v) == v # None /\ v[1] # ""

\* str(v) as an f-string placeholder renders it.
Format(v) == IF v = None THEN "None" ELSE v[1]

\* dict.get(key, default)
Get(d, key, default) == IF key \in DOMAIN d THEN d[key] ELSE default

(***************************************************************************)
(* Characters and strings.                                                 *)
(***************************************************************************)
At(s, i) == IF i >= 1 /\ i <= Len(s) THEN SubSeq(s, i, i) ELSE ""

UpperChars == "ABCDEFGHIJKLMNOPQRSTUVWXYZ"

LowerChars == "abcdefghijklmnopqrstuvwxyz"

Digits == "0123456789"

InChars(c, chars) == \E i \in 1..Len(chars) : SubSeq(chars, i, i) = c

\* re.IGNORECASE compares case-folded characters.
Lower(c) ==
    IF InChars(c, UpperChars)
    THEN LET i == CHOOSE k \in 1..Len(UpperChars) : SubSeq(UpperChars, k, k) = c
         IN  SubSeq(LowerChars, i, i)
    ELSE c

\* The text case-folded, character by character.
RECURSIVE LowerStr(_)
LowerStr(s) ==
    IF Len(s) <= 1 THEN Lower(s)
    ELSE LET half == Len(s) \div 2
         IN  LowerStr(SubSeq(s, 1, half)) \o LowerStr(SubSeq(s, half + 1, Len(s)))

\* \s
IsSpace(c) == c \in {" ", "\t", "\n", "\r", "\f"}

\* \d
IsDigit(c) == InChars(c, Digits)

\* [A-Za-z]
IsAlpha(c) == InChars(c, UpperChars) \/ InChars(c, LowerChars)

\* \w
IsWord(c) == IsAlpha(c) \/ IsDigit(c) \/ c = "_"

Min(S) == CHOOSE m \in S : \A n \in S : m <= n

\* A literal of the pattern (given in lower case) matches the case-folded
\* text lt at position i.
MatchAt(lt, i, lit) ==
    /\ i >= 1
    /\ i + Len(lit) - 1 <= Len(lt)
    /\ SubSeq(lt, i, i + Len(lit) - 1) = lit

\* Greedy \s* from position i: the first position that holds no whitespace.
SkipSpaces(s, i) == Min({k \in i..(Len(s) + 1) : ~IsSpace(At(s, k))})

\* Greedy .* from position i: "." matches everything but a newline, so the
\* match stops before the first newline at or after i, or at the end.
LineEnd(s, i) == Min({k \in i..(Len(s) + 1) : k > Len(s) \/ At(s, k) = "\n"})

\* str.strip()
Max(S) == CHOOSE m \in S : \A n \in S : n <= m

Strip(s) ==
    LET inked == {k \in 1..Len(s) : ~IsSpace(At(s, k))}
    IN  IF inked = {} THEN "" ELSE SubSeq(s, Min(inked), Max(inked))

Contains(s, sub) == \E i \in 1..(Len(s) + 1) : MatchAt(s, i, sub)

FirstPos(s, sub) == Min({i \in 1..(Len(s) + 1) : MatchAt(s, i, sub)})

RECURSIVE Concat(_)
Concat(ss) == IF ss = <<>> THEN "" ELSE Head(ss) \o Concat(Tail(ss))

SeqUpTo(S, n) == UNION {[1..k -> S] : k \in 0..n}

Range(f) == {f[i] : i \in DOMAIN f}

(***************************************************************************)
(* Step 2: extract_parties.                                                *)
(***************************************************************************)
\* label\s*:  matches at i (label in lower case, text case-folded in lt).
LabelMatchAt(s, lt, i, label) ==
    /\ MatchAt(lt, i, label)
    /\ At(s, SkipSpaces(s, i + Len(label))) = ":"

\* group(1) of  label\s*:\s*(.*)  for the match that starts at i.
LabelGroup(s, i, label) ==
    LET colon == SkipSpaces(s, i + Len(label))
        start == SkipSpaces(s, colon + 1)
    IN  SubSeq(s, start, LineEnd(s, start) - 1)

\* re.search(label\s*:\s*(.*), text, re.IGNORECASE): None, or group(1) of
\* the leftmost match.
SearchLabeled(s, label) ==
    LET lt == LowerStr(s)
        at == {i \in 1..Len(s) : LabelMatchAt(s, lt, i, label)}
    IN  IF at = {} THEN None ELSE Str(LabelGroup(s, Min(at), label))

plaintiff_match(s) == SearchLabeled(s, "plaintiff")

defendant_match(s) == SearchLabeled(s, "defendant")

judge_match(s) == SearchLabeled(s, "before")

\* In the\s*(.*Court.*)  matches at i: after the whitespace that \s* takes,
\* the rest of the line holds "court".  Giving whitespace back to the group
\* never produces a match that the greedy choice does not.
CourtMatchAt(s, lt, i) ==
    /\ MatchAt(lt, i, "in the")
    /\ \E k \in 0..(SkipSpaces(s, i + 6) - (i + 6)) :
          LET start == i + 6 + k
          IN  \E c \in start..(LineEnd(s, start) - 5) : MatchAt(lt, c, "court")

CourtGroup(s, lt, i) ==
    LET ks == {k \in 0..(SkipSpaces(s, i + 6) - (i + 6)) :
                  \E c \in (i + 6 + k)..(LineEnd(s, i + 6 + k) - 5) :
                      MatchAt(lt, c, "court")}
        \* greedy \s*: the longest run of whitespace that still matches
        k == CHOOSE m \in ks : \A n \in ks : n <= m
    IN  SubSeq(s, i + 6 + k, LineEnd(s, i + 6 + k) - 1)

court_match(s) ==
    LET lt == LowerStr(s)
        at == {i \in 1..Len(s) : CourtMatchAt(s, lt, i)}
    IN  IF at = {} THEN None ELSE Str(CourtGroup(s, lt, Min(at)))

Stripped_NoStrip(m) == m

\* match.group(1).strip() if the match exists, else the initial None
Stripped(m) == IF m # None THEN Str(Strip(m[1])) ELSE None

\* orgs = [ent.text for ent in doc.ents if ent.label_ in ["ORG", "PERSON"]]
IsOrg(e) == e.label \in {"ORG", "PERSON"}

Orgs(es) == SelectSeq(es, IsOrg)

\* Lines 26-39: the record after the four regular expressions.
RegexParties(s) ==
    [Plaintiff |-> Stripped(plaintiff_match(s)),
     Defendant |-> Stripped(defendant_match(s)),
     Judge     |-> Stripped(judge_match(s)),
     Court     |-> Stripped(court_match(s))]

NerFallback_Overwrites(p, orgs) ==
    LET p1 == IF orgs # <<>>
              THEN [p EXCEPT !.Plaintiff = Str(orgs[1].text)]
              ELSE p
    IN  IF orgs # <<>> /\ Len(orgs) > 1
        THEN [p1 EXCEPT !.Defendant = Str(orgs[2].text)]
        ELSE p1

NerFallback_FirstForBoth(p, orgs) ==
    LET p1 == IF orgs # <<>> /\ ~Truthy(p.Plaintiff)
              THEN [p EXCEPT !.Plaintiff = Str(orgs[1].text)]
              ELSE p
    IN  IF orgs # <<>> /\ ~Truthy(p1.Defendant) /\ Len(orgs) > 1
        THEN [p1 EXCEPT !.Defendant = Str(orgs[1].text)]
        ELSE p1

\* Lines 44-48: if orgs: fill Plaintiff and Defendant where they are falsy.
NerFallback(p, orgs) ==
    LET p1 == IF orgs # <<>> /\ ~Truthy(p.Plaintiff)
              THEN [p EXCEPT !.Plaintiff = Str(orgs[1].text)]
              ELSE p
    IN  IF orgs # <<>> /\ ~Truthy(p1.Defendant) /\ Len(orgs) > 1
        THEN [p1 EXCEPT !.Defendant = Str(orgs[2].text)]
        ELSE p1

extract_parties(s, es) == NerFallback(RegexParties(s), Orgs(es))

(***************************************************************************)
(* Step 3: extract_dates.                                                  *)
(***************************************************************************)
IsDate(e) == e.label = "DATE"

\* set([ent.text for ent in doc.ents if ent.label_ == "DATE"])
DateSet(es) == {e.text : e \in Range(SelectSeq(es, IsDate))}

\* list(set(...)): the elements of the set, each once, in an order the
\* container does not define.
ListOfSet(S) ==
    {l \in [1..Cardinality(S) -> S] : \A i, j \in DOMAIN l : i # j => l[i] # l[j]}

extract_dates(es) == ListOfSet(DateSet(es))

(***************************************************************************)
(* Step 4: extract_clauses.                                                *)
(***************************************************************************)
\* clause_patterns, in insertion order; the alternatives of each pattern in
\* the order of the alternation, case-folded.
clause_patterns ==
    << [name |-> "Jurisdiction",
        alts |-> <<"jurisdiction", "venue", "applicable law", "governing law">>],
       [name |-> "Confidentiality",
        alts |-> <<"confidentiality", "non-disclosure", "secrecy">>],
       [name |-> "Intellectual Property",
        alts |-> <<"intellectual property", "ip", "copyright", "trademark", "patent">>],
       [name |-> "Indemnity",
        alts |-> <<"indemnity", "indemnification", "hold harmless">>],
       [name |-> "Force Majeure",
        alts |-> <<"force majeure", "act of god", "unforeseen events">>],
       [name |-> "Dispute Resolution",
        alts |-> <<"arbitration", "mediation", "dispute resolution">>],
       [name |-> "Termination / Liability",
        alts |-> <<"termination", "liability", "breach", "penalty">>],
       [name |-> "Payment / Obligations",
        alts |-> <<"payment", "fee", "compensation", "obligation", "deliver", "provide">>],
       [name |-> "Warranties",
        alts |-> <<"warranty", "guarantee", "representation">>],
       [name |-> "Compliance",
        alts |-> <<"compliance", "lawful", "regulation", "statutory">>],
       [name |-> "Miscellaneous",
        alts |-> <<"entire agreement", "severability", "assignment", "notices">>] >>

\* (?:\.|\n)
IsTerminator(c) == c \in {".", "\n"}

\* Lazy .*?(?:\.|\n) from position i: the position of the first period or
\* newline at or after i, or 0 when the text ends first.
FirstTerminator(s, i) ==
    LET at == {k \in i..Len(s) : IsTerminator(At(s, k))}
    IN  IF at = {} THEN 0 ELSE Min(at)

\* The alternatives that match at i, by their index in the alternation.
AltsAt(lt, i, alts) == {a \in DOMAIN alts : MatchAt(lt, i, alts[a])}

\* (alt1|alt2|...).*?(?:\.|\n) matched at position i: the first alternative
\* that lets the whole pattern match.  [start, groupEnd, end] or None.
ClauseMatchAt(s, lt, i, alts) ==
    LET ok == {a \in AltsAt(lt, i, alts) : FirstTerminator(s, i + Len(alts[a])) # 0}
    IN  IF ok = {} THEN None
        ELSE LET a == Min(ok)
             IN  Str([start    |-> i,
                      groupEnd |-> i + Len(alts[a]) - 1,
                      end      |-> FirstTerminator(s, i + Len(alts[a]))])

\* The non-overlapping matches of the extended pattern from position i on,
\* left to right.
RECURSIVE ClauseMatches(_, _, _, _)
ClauseMatches(s, lt, i, alts) ==
    LET at == {k \in i..Len(s) : ClauseMatchAt(s, lt, k, alts) # None}
    IN  IF at = {} THEN <<>>
        ELSE LET m == ClauseMatchAt(s, lt, Min(at), alts)[1]
             IN  <<m>> \o ClauseMatches(s, lt, m.end + 1, alts)

\* re.findall on a pattern with one capturing group returns group(1) of
\* every match.
FindAllGroup1(s, ms) == [n \in DOMAIN ms |-> SubSeq(s, ms[n].start, ms[n].groupEnd)]

ClauseFindAll(s, alts) == FindAllGroup1(s, ClauseMatches(s, LowerStr(s), 1, alts))

ClauseNames == {clause_patterns[n].name : n \in DOMAIN clause_patterns}

PatternOf(name) ==
    clause_patterns[CHOOSE n \in DOMAIN clause_patterns : clause_patterns[n].name = name]

StoredClause_Always(matches) == TRUE

\* if matches: clauses[clause_name] = matches
StoredClause(matches) == matches # <<>>

extract_clauses(s) ==
    LET found == [name \in ClauseNames |-> ClauseFindAll(s, PatternOf(name).alts)]
        keys  == {name \in ClauseNames : StoredClause(found[name])}
    IN  [name \in keys |-> found[name]]

(***************************************************************************)
(* Step 5: extract_legal_references.                                       *)
(***************************************************************************)
\* The end of a run of characters of one class that starts at i (i - 1 when
\* the run is empty).
DigitRun(s, i) == Min({k \in i..(Len(s) + 1) : ~IsDigit(At(s, k))}) - 1

AlphaRun(s, i) == Min({k \in i..(Len(s) + 1) : ~IsAlpha(At(s, k))}) - 1

WordSpaceRun(s, i) ==
    Min({k \in i..(Len(s) + 1) : ~(IsWord(At(s, k)) \/ IsSpace(At(s, k)))}) - 1

\* head\s\d+[A-Za-z]*  at i: the end of the match, or 0.
NumberedRefEnd(s, lt, i, head) ==
    LET d == i + Len(head) + 1
    IN  IF MatchAt(lt, i, head) /\ IsSpace(At(s, d - 1)) /\ IsDigit(At(s, d))
        THEN AlphaRun(s, DigitRun(s, d) + 1)
        ELSE 0

\* head\s[\w\s]+  at i: the end of the match, or 0.
NamedRefEnd(s, lt, i, head) ==
    LET w == i + Len(head) + 1
    IN  IF MatchAt(lt, i, head) /\ IsSpace(At(s, w - 1))
           /\ (IsWord(At(s, w)) \/ IsSpace(At(s, w)))
        THEN WordSpaceRun(s, w)
        ELSE 0

\* The alternation, in its order: the end of the match at i, or 0.
RefEndAt(s, lt, i) ==
    LET ends == << NumberedRefEnd(s, lt, i, "section"),
                   NumberedRefEnd(s, lt, i, "article"),
                   NumberedRefEnd(s, lt, i, "clause"),
                   NamedRefEnd(s, lt, i, "act"),
                   NamedRefEnd(s, lt, i, "code") >>
        ok   == {a \in DOMAIN ends : ends[a] # 0}
    IN  IF ok = {} THEN 0 ELSE ends[Min(ok)]

\* re.findall: the group spans the whole pattern, so every entry is the
\* whole match; matches do not overlap.
RECURSIVE RefFindAll(_, _, _)
RefFindAll(s, lt, i) ==
    LET at == {k \in i..Len(s) : RefEndAt(s, lt, k) # 0}
    IN  IF at = {} THEN <<>>
        ELSE LET e == RefEndAt(s, lt, Min(at))
             IN  <<SubSeq(s, Min(at), e)>> \o RefFindAll(s, lt, e + 1)

references(s) == RefFindAll(s, LowerStr(s), 1)

ReferenceSet_CaseFolded(refs) == {LowerStr(r) : r \in Range(refs)}

\* set(references)
ReferenceSet(refs) == Range(refs)

extract_legal_references(s) == ListOfSet(ReferenceSet(references(s)))

(***************************************************************************)
(* Step 6: generate_summary.                                               *)
(***************************************************************************)
DefaultSentenceCount == 5

SummaryPrefix == 500

\* " ".join(...)
RECURSIVE Join(_, _)
Join(ss, sep) ==
    IF ss = <<>> THEN ""
    ELSE IF Len(ss) = 1 THEN ss[1]
    ELSE ss[1] \o sep \o Join(Tail(ss), sep)

\* text[:n]
Prefix(s, n) == SubSeq(s, 1, IF Len(s) < n THEN Len(s) ELSE n)

\* The sentences of doc at the positions in sel, in document order.
RECURSIVE Pick(_, _, _)
Pick(doc, sel, i) ==
    IF i > Len(doc) THEN <<>>
    ELSE (IF i \in sel THEN <<doc[i]>> ELSE <<>>) \o Pick(doc, sel, i + 1)

\* summarizer(parser.document, sentence_count): at most sentence_count
\* sentences of the document; none when the ranking has nothing to rank.
LsaSummarizer(doc, count) ==
    {Pick(doc, sel, 1) : sel \in {x \in SUBSET DOMAIN doc : Cardinality(x) <= count}}

generate_summary_WholeText(s, sentences) ==
    LET joined == Join(sentences, " ")
    IN  IF joined # "" THEN joined ELSE s \o "..."

\* summary if summary else text[:500] + "..."
generate_summary(s, sentences) ==
    LET joined == Join(sentences, " ")
    IN  IF joined # "" THEN joined ELSE Prefix(s, SummaryPrefix) \o "..."

(***************************************************************************)
(* Step 7: identify_core.                                                  *)
(***************************************************************************)
themes ==
    << [name |-> "Contract",
        alts |-> <<"agreement", "contract", "obligations", "parties">>],
       [name |-> "Judgment / Court Case",
        alts |-> <<"judgment", "appeal", "verdict", "court", "bench", "trial">>],
       [name |-> "Criminal Law",
        alts |-> <<"crime", "penal", "punishment", "imprisonment", "charges">>],
       [name |-> "Civil Law",
        alts |-> <<"civil", "compensation", "damages", "injunction">>],
       [name |-> "Corporate / Business Law",
        alts |-> <<"shareholder", "merger", "acquisition", "company law">>],
       [name |-> "Property / Real Estate",
        alts |-> <<"lease", "property", "ownership", "mortgage", "land">>],
       [name |-> "Employment / Labor",
        alts |-> <<"employment", "employee", "employer", "labor", "workplace">>],
       [name |-> "Family Law",
        alts |-> <<"marriage", "divorce", "custody", "maintenance">>],
       [name |-> "Taxation",
        alts |-> <<"tax", "income tax", "gst", "duty", "levy">>] >>

DefaultTheme == "General Legal Document"

\* re.search(pattern, text, re.IGNORECASE) finds a match.
ThemeSearch(lt, alts) == \E i \in 1..Len(lt) : AltsAt(lt, i, alts) # {}

\* for theme, pattern in themes.items(): the loop from its n-th iteration on.
RECURSIVE ThemeLoop(_, _)
ThemeLoop(lt, n) ==
    IF n > Len(themes) THEN DefaultTheme
    ELSE IF ThemeSearch(lt, themes[n].alts) THEN themes[n].name
    ELSE ThemeLoop(lt, n + 1)

identify_core_CaseSensitive(s) == ThemeLoop(s, 1)

identify_core(s) == ThemeLoop(LowerStr(s), 1)

(***************************************************************************)
(* Step 1: read_pdf.                                                       *)
(***************************************************************************)
\* for page in pdf.pages: if extracted: text += extracted + "\n"
RECURSIVE read_pdf(_)
read_pdf(ps) ==
    IF ps = <<>> THEN ""
    ELSE (IF Truthy(Head(ps)) THEN Head(ps)[1] \o "\n" ELSE "") \o read_pdf(Tail(ps))

(***************************************************************************)
(* Step 8: the report of legal_document_understander.                      *)
(***************************************************************************)
\* "   - Plaintiff: {parties.get('Plaintiff', 'N/A')}" and its three siblings
PartyLine(p, field) ==
    "   - " \o field \o ": " \o Format(Get(p, field, Str("N/A"))) \o "\n"

PartiesSection(p) ==
    "1. Parties:\n" \o PartyLine(p, "Plaintiff") \o PartyLine(p, "Defendant")
        \o PartyLine(p, "Judge") \o PartyLine(p, "Court")

\* for x in xs: output += prefix + x + "\n"
RECURSIVE Bullets(_, _)
Bullets(prefix, xs) ==
    IF xs = <<>> THEN ""
    ELSE prefix \o Head(xs) \o "\n" \o Bullets(prefix, Tail(xs))

StripAll(xs) == [n \in DOMAIN xs |-> Strip(xs[n])]

\* for clause_type, clause_list in clauses.items(): in insertion order, which
\* is the order of clause_patterns.
RECURSIVE ClausesSection(_, _)
ClausesSection(cl, n) ==
    IF n > Len(clause_patterns) THEN ""
    ELSE LET name == clause_patterns[n].name
         IN  (IF name \in DOMAIN cl
              THEN "\n   " \o name \o ":\n" \o Bullets("      - ", StripAll(cl[name]))
              ELSE "")
             \o ClausesSection(cl, n + 1)

Report(c, p, cl, ds, refs, sm) ==
    "\nCORE OF DOCUMENT: " \o c \o "\n\n" \o PartiesSection(p)
        \o "\n2. Key Clauses & Obligations:\n" \o ClausesSection(cl, 1)
        \o "\n3. Important Dates:\n" \o Bullets("   - ", ds)
        \o "\n4. Legal References:\n" \o Bullets("   - ", refs)
        \o "\n5. Summary:\n   - " \o sm \o "\n"

(***************************************************************************)
(* The environment: inputs and library results.                            *)
(***************************************************************************)
TextsOf(chunks, n) == {Concat(c) : c \in SeqUpTo(chunks, n)}

PartyChunks ==
    {"Plaintiff: Acme Corp", "Defendant: Beta Inc", "PLAINTIFF :", "defendant:",
     " ", "\n", "Gamma LLC", "Jane Roe", "Before: Lee J", "In the High Court"}

ClauseChunks ==
    {"The venue is Pune", "Governing Law", "recipient", "payment", "Breach",
     ".", "\n", " "}

ReferenceChunks ==
    {"Section 5, ", "section 5, ", "Section\t5, ", "Act 1872", "Article 21A", "."}

ThemeChunks ==
    {"Agreement", "court", "crime", "civil", "merger", "lease", "labor",
     "divorce", "GST", "memo", " "}

EntityPool ==
    {[text |-> "Gamma LLC", label |-> "ORG"],
     [text |-> "Jane Roe", label |-> "PERSON"],
     [text |-> "Acme Corp", label |-> "ORG"],
     [text |-> "High Court", label |-> "GPE"],
     [text |-> "1 May 2020", label |-> "DATE"]}

\* doc.ents of nlp(s): entities are spans of the text, in document order.
NerOutputs(s) ==
    {es \in SeqUpTo(EntityPool, MaxEnts) :
        /\ \A i \in DOMAIN es : Contains(s, es[i].text)
        /\ \A i, j \in DOMAIN es :
              i < j => FirstPos(s, es[i].text) < FirstPos(s, es[j].text)}

\* A sentence longer than the 500 characters the fallback keeps; it holds
\* figures only, no word the ranking could score.
Unit10 == "1234 5678 "

Unit50 == Unit10 \o Unit10 \o Unit10 \o Unit10 \o Unit10

Unit250 == Unit50 \o Unit50 \o Unit50 \o Unit50 \o Unit50

LongSentence == Unit250 \o Unit250 \o "9012 3456."

SentencePool == {"Costs follow.", LongSentence}

\* The sentence tokenizer of the parser, reduced to its rule for plain
\* prose: a sentence ends at a newline, or at ". ", "! ", "? " or the end
\* of the text; sentences are stripped and empty ones dropped.
SentenceEndAt(s, k) ==
    \/ At(s, k) = "\n"
    \/ At(s, k) \in {".", "!", "?"} /\ (k = Len(s) \/ IsSpace(At(s, k + 1)))

RECURSIVE Tokenize(_, _)
Tokenize(s, i) ==
    IF i > Len(s) THEN <<>>
    ELSE LET ends == {k \in i..Len(s) : SentenceEndAt(s, k)}
             e    == IF ends = {} THEN Len(s) ELSE Min(ends)
             sent == Strip(SubSeq(s, i, e))
         IN  (IF sent = "" THEN <<>> ELSE <<sent>>) \o Tokenize(s, e + 1)

PagePool ==
    {None, Str(""), Str("Plaintiff: Acme Corp"),
     Str("In the High Court. Section 5 venue."),
     Str("Gamma LLC pays the fee by 1 May 2020.\nJane Roe")}

(***************************************************************************)
(* The pipeline: legal_document_understander and the entry point.          *)
(***************************************************************************)
Stages ==
    << "read_pdf", "extract_parties", "extract_dates", "extract_clauses",
       "extract_legal_references", "generate_summary", "identify_core" >>

StageSet == Range(Stages)

IndexOf(stage) == CHOOSE n \in DOMAIN Stages : Stages[n] = stage

\* Control after a stage returns: the next call, or the report assembly.
After(stage) ==
    IF IndexOf(stage) < Len(Stages) THEN Stages[IndexOf(stage) + 1] ELSE "assemble"

Enter(stage) == ran' = [ran EXCEPT ![stage] = @ + 1]

Raise_Retry(stage) ==
    /\ pc' = stage
    /\ raised' = raised

\* No call of the pipeline is inside a try: an exception leaves
\* legal_document_understander and the entry point, and the process ends.
Raise(stage) ==
    /\ pc' = "traceback"
    /\ raised' = Str(stage)

Init ==
    /\ pc = "read_pdf"
    /\ pages \in SeqUpTo(PagePool, MaxPages)
    /\ text = ""
    /\ ents = <<>>
    /\ document = <<>>
    /\ sentence_count = DefaultSentenceCount
    /\ summary_sentences = <<>>
    /\ parties = None
    /\ dates = <<>>
    /\ clauses = <<>>
    /\ legal_refs = <<>>
    /\ summary = None
    /\ core = None
    /\ output = None
    /\ printed = FALSE
    /\ ran = [s \in StageSet |-> 0]
    /\ raised = None

StageReadPdf ==
    /\ pc = "read_pdf"
    /\ Enter("read_pdf")
    /\ text' = read_pdf(pages)
    /\ pc' = After("read_pdf")
    /\ UNCHANGED <<pages, ents, document, sentence_count, summary_sentences,
                   parties, dates, clauses, legal_refs, summary, core, output,
                   printed, raised>>

StageExtractParties ==
    /\ pc = "extract_parties"
    /\ Enter("extract_parties")
    /\ \E es \in NerOutputs(text) :
          /\ ents' = es
          /\ parties' = extract_parties(text, es)
    /\ pc' = After("extract_parties")
    /\ UNCHANGED <<pages, text, document, sentence_count, summary_sentences,
                   dates, clauses, legal_refs, summary, core, output, printed,
                   raised>>

\* nlp(text) a second time: the same entities.
StageExtractDates ==
    /\ pc = "extract_dates"
    /\ Enter("extract_dates")
    /\ dates' \in extract_dates(ents)
    /\ pc' = After("extract_dates")
    /\ UNCHANGED <<pages, text, ents, document, sentence_count,
                   summary_sentences, parties, clauses, legal_refs, summary,
                   core, output, printed, raised>>

StageExtractClauses ==
    /\ pc = "extract_clauses"
    /\ Enter("extract_clauses")
    /\ clauses' = extract_clauses(text)
    /\ pc' = After("extract_clauses")
    /\ UNCHANGED <<pages, text, ents, document, sentence_count,
                   summary_sentences, parties, dates, legal_refs, summary, core,
                   output, printed, raised>>

StageExtractLegalReferences ==
    /\ pc = "extract_legal_references"
    /\ Enter("extract_legal_references")
    /\ legal_refs' \in extract_legal_references(text)
    /\ pc' = After("extract_legal_references")
    /\ UNCHANGED <<pages, text, ents, document, sentence_count,
                   summary_sentences, parties, dates, clauses, summary, core,
                   output, printed, raised>>

StageGenerateSummary ==
    /\ pc = "generate_summary"
    /\ Enter("generate_summary")
    /\ document' = Tokenize(text, 1)
    /\ \E sentences \in LsaSummarizer(document', sentence_count) :
          /\ summary_sentences' = sentences
          /\ summary' = Str(generate_summary(text, sentences))
    /\ pc' = After("generate_summary")
    /\ UNCHANGED <<pages, text, ents, sentence_count, parties, dates, clauses,
                   legal_refs, core, output, printed, raised>>

StageIdentifyCore ==
    /\ pc = "identify_core"
    /\ Enter("identify_core")
    /\ core' = Str(identify_core(text))
    /\ pc' = After("identify_core")
    /\ UNCHANGED <<pages, text, ents, document, sentence_count,
                   summary_sentences, parties, dates, clauses, legal_refs,
                   summary, output, printed, raised>>

\* Any of the seven calls raises instead of returning.
StageRaises ==
    /\ pc \in StageSet
    /\ Enter(pc)
    /\ Raise(pc)
    /\ UNCHANGED <<pages, text, ents, document, sentence_count,
                   summary_sentences, parties, dates, clauses, legal_refs,
                   summary, core, output, printed>>

\* Lines 121-147: build the report and return it.
Assemble ==
    /\ pc = "assemble"
    /\ output' = Str(Report(core[1], parties, clauses, dates, legal_refs, summary[1]))
    /\ pc' = "print"
    /\ UNCHANGED <<pages, text, ents, document, sentence_count,
                   summary_sentences, parties, dates, clauses, legal_refs,
                   summary, core, printed, ran, raised>>

\* print(result)
PrintResult ==
    /\ pc = "print"
    /\ printed' = TRUE
    /\ pc' = "exit"
    /\ UNCHANGED <<pages, text, ents, document, sentence_count,
                   summary_sentences, parties, dates, clauses, legal_refs,
                   summary, core, output, ran, raised>>

Next ==
    \/ StageReadPdf
    \/ StageExtractParties
    \/ StageExtractDates
    \/ StageExtractClauses
    \/ StageExtractLegalReferences
    \/ StageGenerateSummary
    \/ StageIdentifyCore
    \/ StageRaises
    \/ Assemble
    \/ PrintResult

Spec == Init /\ [][Next]_vars

(***************************************************************************)
(* The functions on their own: one call on a text drawn from a bounded     *)
(* set.                                                                    *)
(***************************************************************************)
\* Everything a single call does not touch.
Untouched ==
    /\ pages = <<>>
    /\ output = None
    /\ printed = FALSE
    /\ ran = 0
    /\ raised = None

InitParties ==
    /\ pc = "call"
    /\ text \in TextsOf(PartyChunks, MaxChunks)
    /\ ents = <<>>
    /\ document = <<>>
    /\ sentence_count = DefaultSentenceCount
    /\ summary_sentences = <<>>
    /\ parties = None
    /\ dates = <<>>
    /\ clauses = <<>>
    /\ legal_refs = <<>>
    /\ summary = None
    /\ core = None
    /\ Untouched

CallExtractParties ==
    /\ pc = "call"
    /\ \E es \in NerOutputs(text) :
          /\ ents' = es
          /\ parties' = extract_parties(text, es)
    /\ pc' = "returned"
    /\ UNCHANGED <<pages, text, document, sentence_count, summary_sentences,
                   dates, clauses, legal_refs, summary, core, output, printed,
                   ran, raised>>

NextParties == CallExtractParties

SpecParties == InitParties /\ [][NextParties]_vars

InitClauses ==
    /\ pc = "call"
    /\ text \in TextsOf(ClauseChunks, MaxChunks)
    /\ ents = <<>>
    /\ document = <<>>
    /\ sentence_count = DefaultSentenceCount
    /\ summary_sentences = <<>>
    /\ parties = None
    /\ dates = <<>>
    /\ clauses = <<>>
    /\ legal_refs = <<>>
    /\ summary = None
    /\ core = None
    /\ Untouched

CallExtractClauses ==
    /\ pc = "call"
    /\ clauses' = extract_clauses(text)
    /\ pc' = "returned"
    /\ UNCHANGED <<pages, text, ents, document, sentence_count,
                   summary_sentences, parties, dates, legal_refs, summary, core,
                   output, printed, ran, raised>>

NextClauses == CallExtractClauses

SpecClauses == InitClauses /\ [][NextClauses]_vars

InitReferences ==
    /\ pc = "call"
    /\ text \in TextsOf(ReferenceChunks, MaxChunks)
    /\ ents = <<>>
    /\ document = <<>>
    /\ sentence_count = DefaultSentenceCount
    /\ summary_sentences = <<>>
    /\ parties = None
    /\ dates = <<>>
    /\ clauses = <<>>
    /\ legal_refs = <<>>
    /\ summary = None
    /\ core = None
    /\ Untouched

CallExtractLegalReferences ==
    /\ pc = "call"
    /\ legal_refs' \in extract_legal_references(text)
    /\ pc' = "returned"
    /\ UNCHANGED <<pages, text, ents, document, sentence_count,
                   summary_sentences, parties, dates, clauses, summary, core,
                   output, printed, ran, raised>>

NextReferences == CallExtractLegalReferences

SpecReferences == InitReferences /\ [][NextReferences]_vars

\* The text and the sentences the parser makes of it.
InitSummary ==
    /\ pc = "call"
    /\ document \in SeqUpTo(SentencePool, MaxSentences)
    /\ text = Join(document, " ")
    /\ sentence_count \in 1..DefaultSentenceCount
    /\ ents = <<>>
    /\ summary_sentences = <<>>
    /\ parties = None
    /\ dates = <<>>
    /\ clauses = <<>>
    /\ legal_refs = <<>>
    /\ summary = None
    /\ core = None
    /\ Untouched

CallGenerateSummary ==
    /\ pc = "call"
    /\ \E sentences \in LsaSummarizer(document, sentence_count) :
          /\ summary_sentences' = sentences
          /\ summary' = Str(generate_summary(text, sentences))
    /\ pc' = "returned"
    /\ UNCHANGED <<pages, text, ents, document, sentence_count, parties, dates,
                   clauses, legal_refs, core, output, printed, ran, raised>>

NextSummary == CallGenerateSummary

SpecSummary == InitSummary /\ [][NextSummary]_vars

\* identify_core may be called again on the same text; ran counts the calls.
InitCore ==
    /\ pc = "call"
    /\ text \in TextsOf(ThemeChunks, MaxChunks)
    /\ ents = <<>>
    /\ document = <<>>
    /\ sentence_count = DefaultSentenceCount
    /\ summary_sentences = <<>>
    /\ parties = None
    /\ dates = <<>>
    /\ clauses = <<>>
    /\ legal_refs = <<>>
    /\ summary = None
    /\ core = None
    /\ Untouched

CallIdentifyCore ==
    /\ pc \in {"call", "returned"}
    /\ ran < MaxCalls
    /\ ran' = ran + 1
    /\ core' = Str(identify_core(text))
    /\ pc' = "returned"
    /\ UNCHANGED <<pages, text, ents, document, sentence_count,
                   summary_sentences, parties, dates, clauses, legal_refs,
                   summary, output, printed, raised>>

NextCore == CallIdentifyCore

SpecCore == InitCore /\ [][NextCore]_vars

(***************************************************************************)
(* Properties of extract_parties (SpecParties).                            *)
(***************************************************************************)
StatedPlaintiff == "Plaintiff: Acme Corp"

StatedDefendant == "Defendant: Beta Inc"

PartyFields == {"Plaintiff", "Defendant", "Judge", "Court"}

FieldMatch(s, field) ==
    CASE field = "Plaintiff" -> plaintiff_match(s)
      [] field = "Defendant" -> defendant_match(s)
      [] field = "Judge"     -> judge_match(s)
      [] field = "Court"     -> court_match(s)

\* From position p to the end of its line the text holds whitespace only.
OnlySpaceToLineEnd(s, p) ==
    \A k \in p..Len(s) :
        (\A m \in p..(k - 1) : At(s, m) # "\n") => IsSpace(At(s, k))

\* The leftmost place where  label\s*:  matches opens the substring sub, and
\* nothing but whitespace follows sub on its line.
StatedCleanly(s, sub, label) ==
    \E i \in 1..Len(s) :
        /\ MatchAt(s, i, sub)
        /\ LET folded == LowerStr(s)
           IN  \A j \in 1..(i - 1) : ~LabelMatchAt(s, folded, j, label)
        /\ OnlySpaceToLineEnd(s, i + Len(sub))

\* C1 as stated: every text that contains "Plaintiff: Acme Corp" and
\* "Defendant: Beta Inc" as substrings, whatever surrounds them, yields
\* Plaintiff exactly "Acme Corp" and Defendant exactly "Beta Inc".
C1_AnySurroundingText ==
    (pc = "returned" /\ Contains(text, StatedPlaintiff) /\ Contains(text, StatedDefendant))
        => /\ parties.Plaintiff = Str("Acme Corp")
           /\ parties.Defendant = Str("Beta Inc")

\* C1, amended: when the leftmost match of Plaintiff\s*: opens
\* "Plaintiff: Acme Corp" and only whitespace follows the name on its line,
\* Plaintiff is exactly "Acme Corp" whatever entity recognition returns;
\* likewise Defendant and "Defendant: Beta Inc".
C1_CleanlyStatedParties ==
    pc = "returned" =>
        /\ StatedCleanly(text, StatedPlaintiff, "plaintiff")
              => parties.Plaintiff = Str("Acme Corp")
        /\ StatedCleanly(text, StatedDefendant, "defendant")
              => parties.Defendant = Str("Beta Inc")

C1_Witness ==
    /\ pc = "returned"
    /\ StatedCleanly(text, StatedPlaintiff, "plaintiff")
    /\ StatedCleanly(text, StatedDefendant, "defendant")
    /\ Orgs(ents) # <<>>
    /\ parties.Plaintiff = Str("Acme Corp")
    /\ parties.Defendant = Str("Beta Inc")

\* C6 as stated: with at least two ORG/PERSON entities, every one of the
\* four fields that its regex left unmatched holds the first or the second
\* entity.
C6_AllFourFieldsFilled ==
    (pc = "returned" /\ Len(Orgs(ents)) >= 2) =>
        \A field \in PartyFields :
            FieldMatch(text, field) = None
                => parties[field] \in {Str(Orgs(ents)[1].text), Str(Orgs(ents)[2].text)}

\* C6, amended: with at least two ORG/PERSON entities, an unmatched
\* Plaintiff holds the first entity and an unmatched Defendant the second;
\* an unmatched Judge or Court stays None.
C6_OnlyPlaintiffAndDefendantFilled ==
    (pc = "returned" /\ Len(Orgs(ents)) >= 2) =>
        /\ plaintiff_match(text) = None => parties.Plaintiff = Str(Orgs(ents)[1].text)
        /\ defendant_match(text) = None => parties.Defendant = Str(Orgs(ents)[2].text)
        /\ judge_match(text) = None => parties.Judge = None
        /\ court_match(text) = None => parties.Court = None

C6_Witness ==
    /\ pc = "returned"
    /\ Len(Orgs(ents)) >= 2
    /\ \A field \in PartyFields : FieldMatch(text, field) = None
    /\ parties.Plaintiff = Str(Orgs(ents)[1].text)
    /\ parties.Defendant = Str(Orgs(ents)[2].text)
    /\ parties.Judge = None

\* C10 as stated: whenever the Plaintiff (Defendant) regex matches, the
\* returned field is the stripped captured group, also when that is empty.
C10_MatchedFieldNeverOverwritten ==
    pc = "returned" =>
        /\ plaintiff_match(text) # None
              => parties.Plaintiff = Stripped(plaintiff_match(text))
        /\ defendant_match(text) # None
              => parties.Defendant = Stripped(defendant_match(text))

\* C10, amended: whenever the regex matches and its captured group is not
\* empty after stripping, the returned field is that stripped group whatever
\* entity recognition returns; a group that is empty after stripping counts
\* as unset and gives way to the first (second) ORG/PERSON entity if there
\* is one.
C10_NonEmptyMatchNeverOverwritten ==
    pc = "returned" =>
        LET pm   == Stripped(plaintiff_match(text))
            dm   == Stripped(defendant_match(text))
            orgs == Orgs(ents)
        IN  /\ Truthy(pm) => parties.Plaintiff = pm
            /\ Truthy(dm) => parties.Defendant = dm
            /\ pm = Str("") =>
                  parties.Plaintiff = IF Len(orgs) >= 1 THEN Str(orgs[1].text) ELSE pm
            /\ dm = Str("") =>
                  parties.Defendant = IF Len(orgs) >= 2 THEN Str(orgs[2].text) ELSE dm

C10_Witness ==
    /\ pc = "returned"
    /\ Truthy(Stripped(plaintiff_match(text)))
    /\ Len(Orgs(ents)) >= 1
    /\ parties.Plaintiff = Stripped(plaintiff_match(text))
    /\ parties.Plaintiff # Str(Orgs(ents)[1].text)

(***************************************************************************)
(* Properties of extract_clauses (SpecClauses).                            *)
(***************************************************************************)
\* The full spans of the matches of a category, in document order.
FullSpans(s, name) ==
    LET ms == ClauseMatches(s, LowerStr(s), 1, PatternOf(name).alts)
    IN  [n \in DOMAIN ms |-> SubSeq(s, ms[n].start, ms[n].end)]

\* C3: every entry stored for a category is the full span of a match, from
\* the keyword through the first following period or newline, and the
\* entries are in document order.
C3_EntriesAreFullSpans ==
    pc = "returned" =>
        \A name \in DOMAIN clauses : clauses[name] = FullSpans(text, name)

\* Somewhere in the text a keyword of the category occurs, in any case, with
\* a period or a newline after it.
HasExtendedMatch(s, folded, name) ==
    \E k \in DOMAIN PatternOf(name).alts :
        \E i \in 1..Len(s) :
            LET kw == PatternOf(name).alts[k]
            IN  /\ i + Len(kw) - 1 <= Len(s)
                /\ SubSeq(folded, i, i + Len(kw) - 1) = kw
                /\ \E e \in (i + Len(kw))..Len(s) : At(s, e) \in {".", "\n"}

FixedCategories ==
    {"Jurisdiction", "Confidentiality", "Intellectual Property", "Indemnity",
     "Force Majeure", "Dispute Resolution", "Termination / Liability",
     "Payment / Obligations", "Warranties", "Compliance", "Miscellaneous"}

\* C4: the map has a key for a category exactly when the category's
\* extended pattern matches somewhere in the text; no key maps to an empty
\* list; every key is one of the 11 category names.
C4_KeysAreMatchedCategories ==
    pc = "returned" =>
        /\ DOMAIN clauses \subseteq FixedCategories
        /\ LET folded == LowerStr(text)
           IN  \A name \in FixedCategories :
                   name \in DOMAIN clauses <=> HasExtendedMatch(text, folded, name)
        /\ \A name \in DOMAIN clauses : clauses[name] # <<>>

\* A stored category next to a category whose keyword occurs without a
\* period or newline after it.
C4_Witness ==
    /\ pc = "returned"
    /\ "Jurisdiction" \in DOMAIN clauses
    /\ Contains(LowerStr(text), "payment")
    /\ "Payment / Obligations" \notin DOMAIN clauses

(***************************************************************************)
(* Properties of extract_legal_references (SpecReferences).                *)
(***************************************************************************)
\* C8: the returned list holds no string twice and holds exactly the
\* distinct raw matches; matches that differ only in case or whitespace stay
\* separate entries.
C8_DistinctRawMatches ==
    pc = "returned" =>
        /\ \A i, j \in DOMAIN legal_refs : i # j => legal_refs[i] # legal_refs[j]
        /\ Range(legal_refs) = Range(references(text))
        /\ Len(legal_refs) = Cardinality(Range(references(text)))

\* A raw match that occurs twice, and two matches that differ in case only.
C8_Witness ==
    /\ pc = "returned"
    /\ Len(references(text)) > Len(legal_refs)
    /\ \E a, b \in Range(legal_refs) : a # b /\ LowerStr(a) = LowerStr(b)

(***************************************************************************)
(* Properties of generate_summary (SpecSummary).                           *)
(***************************************************************************)
\* The first 500 characters of the text, then "...".
FallbackForm(s) == (IF Len(s) > 500 THEN SubSeq(s, 1, 500) ELSE s) \o "..."

\* C7: with no sentences from the ranking step the result is the first 500
\* characters of the text followed by "..."; with at least one sentence it
\* is those sentences, at most sentence_count, joined by single spaces; a
\* text with fewer sentences than requested gives fewer sentences or the
\* fallback form.
C7_FallbackOnlyWithoutSentences ==
    pc = "returned" =>
        /\ summary_sentences = <<>> => summary = Str(FallbackForm(text))
        /\ summary_sentences # <<>> =>
              /\ summary = Str(Join(summary_sentences, " "))
              /\ Len(summary_sentences) <= sentence_count
        /\ Len(document) < sentence_count =>
              \/ summary = Str(FallbackForm(text))
              \/ Len(summary_sentences) < sentence_count

\* The fallback on a text of more than 500 characters that holds no word,
\* asked for more sentences than it has.
C7_Witness ==
    /\ pc = "returned"
    /\ summary_sentences = <<>>
    /\ text = LongSentence
    /\ Len(text) > 500
    /\ Len(document) < sentence_count
    /\ summary = Str(SubSeq(text, 1, 500) \o "...")

(***************************************************************************)
(* Properties of identify_core (SpecCore).                                 *)
(***************************************************************************)
ThemeOrder ==
    << "Contract", "Judgment / Court Case", "Criminal Law", "Civil Law",
       "Corporate / Business Law", "Property / Real Estate",
       "Employment / Labor", "Family Law", "Taxation" >>

\* The themes, by position, of which some keyword occurs in the text in any
\* case.
MatchingThemes(s) ==
    LET folded == LowerStr(s)
    IN  {n \in DOMAIN themes :
            \E k \in DOMAIN themes[n].alts : Contains(folded, themes[n].alts[k])}

\* C5: every call returns the first theme of the fixed order whose pattern
\* matches the text in any case, and "General Legal Document" exactly when
\* none matches; calls on the same text agree.
C5_FirstMatchingTheme ==
    pc = "returned" =>
        LET matching == MatchingThemes(text)
        IN  /\ matching # {} => core = Str(ThemeOrder[Min(matching)])
            /\ matching = {} <=> core = Str("General Legal Document")

\* The second call on a text that matches several themes.
C5_Witness ==
    /\ pc = "returned"
    /\ ran = 2
    /\ Cardinality(MatchingThemes(text)) >= 2
    /\ core = Str(ThemeOrder[Min(MatchingThemes(text))])

(***************************************************************************)
(* Properties of the pipeline (Spec).                                      *)
(***************************************************************************)
\* C2: in the report every party field that is absent is rendered as "N/A"
\* on its line of the Parties section.
C2_AbsentFieldIsNA ==
    output # None =>
        \A field \in PartyFields :
            parties[field] = None
                => Contains(output[1], "   - " \o field \o ": N/A\n")

\* The stage was entered and returned.
Completed(stage) == ran[stage] >= 1 /\ raised # Str(stage)

\* C9: every stage runs at most once and only after all earlier stages
\* returned; once a stage has raised no report exists and nothing is
\* printed; a report exists only if all seven stages returned.
C9_AnyExceptionAbortsTheRun ==
    /\ \A stage \in StageSet : ran[stage] <= 1
    /\ \A n \in DOMAIN Stages :
          (ran[Stages[n]] >= 1 \/ pc = Stages[n])
              => \A m \in 1..(n - 1) : Completed(Stages[m])
    /\ raised # None =>
          /\ pc = "traceback"
          /\ output = None
          /\ ~printed
          /\ \A n \in (IndexOf(raised[1]) + 1)..Len(Stages) : ran[Stages[n]] = 0
    /\ (output # None \/ printed) => \A stage \in StageSet : Completed(stage)
    /\ printed => output # None

\* Clause extraction raised after three stages had returned.
C9_Witness ==
    /\ pc = "traceback"
    /\ raised = Str("extract_clauses")
    /\ Completed("extract_dates")
    /\ ran["extract_legal_references"] = 0
    /\ output = None

=============================================================================
